---- MODULE Spec2Model ----
(***************************************************************************)
(* Maze generation (maze.py), A* search (astar.py) and the pipeline that   *)
(* joins them (main.py) of Astar_visualizer.                               *)
(*                                                                         *)
(* The grid is a function from <<row, col>> to 0 (open) or 1 (wall), as    *)
(* the numpy array of the source.  A position is a pair <<row, col>>.      *)
(***************************************************************************)
EXTENDS Integers, Sequences, FiniteSets

VARIABLES
    pc,            \* position of the program
    height, width, \* Maze.height, Maze.width; AStar.height, AStar.width
    maze,          \* Maze.maze; AStar.maze
    stack,         \* generate: stack
    start_y,       \* generate_start_end: start_y
    end_y,         \* generate_start_end: end_y
    start, end,    \* Maze.start, Maze.end; the arguments of find_path
    open_list,     \* find_path: open_list, a heapq heap of nodes (by position)
    closed_set,    \* find_path: closed_set
    nodes,         \* find_path: nodes, position -> Node
    current,       \* find_path: current (the position of the popped node)
    cost_history,  \* AStar.cost_history
    path,          \* find_path: the returned path
    path_costs     \* find_path: the returned cost records

vars == <<pc, height, width, maze, stack, start_y, end_y, start, end,
          open_list, closed_set, nodes, current, cost_history, path, path_costs>>

mazeVars == <<height, width, maze, stack, start_y, end_y>>
searchVars == <<open_list, closed_set, nodes, current, cost_history, path, path_costs>>

\* Largest width and height handed to Maze(width, height).
MaxWidth == 7
MaxHeight == 7

None == <<>>

Cells(h, w) == (0 .. h - 1) \X (0 .. w - 1)

Abs(x) == IF x < 0 THEN -x ELSE x

\* Maze.__init__: an even dimension is incremented by one.
ForceOdd(n) == IF n % 2 = 1 THEN n ELSE n + 1

(***************************************************************************)
(* maze.py                                                                 *)
(***************************************************************************)

\* generate: directions, in the order of the source.
directions == << <<0, 2>>, <<2, 0>>, <<0, -2>>, <<-2, 0>> >>

\* generate: the cells two steps from cell that lie strictly inside the border
\* and are still walls.
unvisited(m, h, w, cell) ==
    { n \in { <<cell[1] + directions[i][1], cell[2] + directions[i][2]>> : i \in 1 .. 4 } :
        /\ 0 < n[1] /\ n[1] < h - 1
        /\ 0 < n[2] /\ n[2] < w - 1
        /\ m[n] = 1 }

\* The cell itself instead of the wall between the two cells.
BetweenNotHalved(cell, next_cell) == cell

\* generate: the wall cell between cell and next_cell.
Between(cell, next_cell) ==
    <<(cell[1] + next_cell[1]) \div 2, (cell[2] + next_cell[2]) \div 2>>

\* generate: open the wall between and the chosen cell.
CarveInto(m, cell, next_cell) ==
    [m EXCEPT ![Between(cell, next_cell)] = 0, ![next_cell] = 0]

\* Maze(width, height): the state after construction.
Init ==
    /\ \E w \in 3 .. MaxWidth, h \in 3 .. MaxHeight :
          /\ width = ForceOdd(w)
          /\ height = ForceOdd(h)
          /\ maze = [c \in Cells(ForceOdd(h), ForceOdd(w)) |-> 1]
    /\ pc = "generate"
    /\ stack = <<>>
    /\ start_y = 0
    /\ end_y = 0
    /\ start = None
    /\ end = None
    /\ open_list = <<>>
    /\ closed_set = {}
    /\ nodes = <<>>
    /\ current = None
    /\ cost_history = <<>>
    /\ path = <<>>
    /\ path_costs = <<>>

\* generate, lines 46-52: open the seed and start the stack with it.
GenerateBegin ==
    /\ pc = "generate"
    /\ maze' = [maze EXCEPT ![<<1, 1>>] = 0]
    /\ stack' = << <<1, 1>> >>
    /\ pc' = "carve"
    /\ UNCHANGED <<height, width, start_y, end_y, start, end>>
    /\ UNCHANGED searchVars

\* generate, lines 66-75: carve towards a randomly chosen unvisited cell.
Carve ==
    /\ pc = "carve"
    /\ stack # <<>>
    /\ LET cell == stack[Len(stack)]
       IN  \E next_cell \in unvisited(maze, height, width, cell) :
              /\ maze' = CarveInto(maze, cell, next_cell)
              /\ stack' = Append(stack, next_cell)
    /\ UNCHANGED <<pc, height, width, start_y, end_y, start, end>>
    /\ UNCHANGED searchVars

\* The dead end is left on the stack.
BacktrackStackNoPop(s) == s

\* generate, lines 76-78: a dead end, step back.
BacktrackStack(s) == SubSeq(s, 1, Len(s) - 1)

Backtrack ==
    /\ pc = "carve"
    /\ stack # <<>>
    /\ unvisited(maze, height, width, stack[Len(stack)]) = {}
    /\ stack' = BacktrackStack(stack)
    /\ UNCHANGED <<pc, height, width, maze, start_y, end_y, start, end>>
    /\ UNCHANGED searchVars

\* generate, line 54 false and line 81: the loop ends, generate_start_end is called.
CarveEnd ==
    /\ pc = "carve"
    /\ stack = <<>>
    /\ pc' = "roll_start"
    /\ UNCHANGED <<height, width, maze, stack, start_y, end_y, start, end>>
    /\ UNCHANGED searchVars

\* random.randint(1, self.height-2): both ends included.
Rows == 1 .. height - 2

\* generate_start_end, lines 29-31: a row whose cell in column 1 is a wall is
\* rolled again.
RollStartMiss ==
    /\ pc = "roll_start"
    /\ \E y \in Rows : maze[<<y, 1>>] = 1 /\ start_y' = y
    /\ UNCHANGED <<pc, height, width, maze, stack, end_y, start, end>>
    /\ UNCHANGED searchVars

\* generate_start_end, lines 29-32: the row is accepted.
RollStartHit ==
    /\ pc = "roll_start"
    /\ \E y \in Rows :
          /\ maze[<<y, 1>>] # 1
          /\ start_y' = y
          /\ start' = <<y, 0>>
    /\ pc' = "roll_end"
    /\ UNCHANGED <<height, width, maze, stack, end_y, end>>
    /\ UNCHANGED searchVars

\* generate_start_end, lines 35-37.
RollEndMiss ==
    /\ pc = "roll_end"
    /\ \E y \in Rows : maze[<<y, width - 2>>] = 1 /\ end_y' = y
    /\ UNCHANGED <<pc, height, width, maze, stack, start_y, start, end>>
    /\ UNCHANGED searchVars

\* Only the start's border cell is opened.
OpenGatesStartOnly(m, sy, ey, w) == [m EXCEPT ![<<sy, 0>>] = 0]

\* generate_start_end, lines 41-42: open the two border cells.
OpenGates(m, sy, ey, w) == [m EXCEPT ![<<sy, 0>>] = 0, ![<<ey, w - 1>>] = 0]

\* generate_start_end, lines 35-42: the row is accepted, the border cells are
\* opened, generate returns.
RollEndHit ==
    /\ pc = "roll_end"
    /\ \E y \in Rows :
          /\ maze[<<y, width - 2>>] # 1
          /\ end_y' = y
          /\ end' = <<y, width - 1>>
          /\ maze' = OpenGates(maze, start_y, y, width)
    /\ pc' = "find_path"
    /\ UNCHANGED <<height, width, stack, start_y, start>>
    /\ UNCHANGED searchVars

NextGenerate ==
    \/ GenerateBegin
    \/ Carve
    \/ Backtrack
    \/ CarveEnd
    \/ RollStartMiss
    \/ RollStartHit
    \/ RollEndMiss
    \/ RollEndHit

SpecGenerate == Init /\ [][NextGenerate]_vars

\* The program runs on: the loop of generate takes its next step.  A roll that
\* hits stays possible for as long as rolls miss, so a fair random choice of
\* the row takes it in the end.
FairGenerate ==
    /\ WF_vars(GenerateBegin \/ Carve \/ Backtrack \/ CarveEnd)
    /\ WF_vars(RollStartHit)
    /\ WF_vars(RollEndHit)

SpecGenerateFair == SpecGenerate /\ FairGenerate

(***************************************************************************)
(* astar.py                                                                *)
(***************************************************************************)

\* AStar.heuristic: the Manhattan distance.
heuristic(pos, e) == Abs(pos[1] - e[1]) + Abs(pos[2] - e[2])

\* get_neighbors: the order of the source is right, down, left, up.
NeighborOffsets == << <<0, 1>>, <<1, 0>>, <<0, -1>>, <<-1, 0>> >>

\* In bounds, walls not looked at.
PassableIgnoringWalls(m, h, w, n) ==
    /\ 0 <= n[1] /\ n[1] < h
    /\ 0 <= n[2] /\ n[2] < w

\* get_neighbors, lines 106-107: in bounds and open.
Passable(m, h, w, n) ==
    /\ 0 <= n[1] /\ n[1] < h
    /\ 0 <= n[2] /\ n[2] < w
    /\ m[n] = 0

get_neighbors(m, h, w, pos) ==
    LET cand == [i \in 1 .. 4 |-> <<pos[1] + NeighborOffsets[i][1], pos[2] + NeighborOffsets[i][2]>>]
        Ok(n) == Passable(m, h, w, n)
    IN  SelectSeq(cand, Ok)

\* Node.__lt__: nodes compare by f alone, read when the comparison is made.
NodeLt(nd, a, b) == nd[a].f < nd[b].f

\* heapq._siftdown(heap, startpos, pos); heap indices are 0-based as in Python,
\* the sequence is 1-based.
RECURSIVE SiftDownLoop(_, _, _, _, _)
SiftDownLoop(nd, heap, newitem, startpos, pos) ==
    IF pos > startpos
    THEN LET parentpos == (pos - 1) \div 2
             parent == heap[parentpos + 1]
         IN  IF NodeLt(nd, newitem, parent)
             THEN SiftDownLoop(nd, [heap EXCEPT ![pos + 1] = parent], newitem, startpos, parentpos)
             ELSE [heap EXCEPT ![pos + 1] = newitem]
    ELSE [heap EXCEPT ![pos + 1] = newitem]

siftdown(nd, heap, startpos, pos) == SiftDownLoop(nd, heap, heap[pos + 1], startpos, pos)

\* heapq._siftup(heap, pos): the smaller child is moved up until a leaf is
\* reached; the result is <<heap, pos of the leaf>>.
RECURSIVE SiftUpLoop(_, _, _)
SiftUpLoop(nd, heap, pos) ==
    LET endpos == Len(heap)
        childpos == 2 * pos + 1
        rightpos == childpos + 1
        child == IF rightpos < endpos /\ ~NodeLt(nd, heap[childpos + 1], heap[rightpos + 1])
                 THEN rightpos ELSE childpos
    IN  IF childpos < endpos
        THEN SiftUpLoop(nd, [heap EXCEPT ![pos + 1] = heap[child + 1]], child)
        ELSE <<heap, pos>>

siftup(nd, heap, pos) ==
    LET newitem == heap[pos + 1]
        r == SiftUpLoop(nd, heap, pos)
    IN  SiftDownLoop(nd, r[1], newitem, pos, r[2])

\* heapq.heappush(open_list, item), lines 161 and 205.
heappush(nd, heap, item) == siftdown(nd, Append(heap, item), 0, Len(heap))

\* heapq.heappop(open_list), line 164: <<returned item, heap left>>.
heappop(nd, heap) ==
    LET lastelt == heap[Len(heap)]
        rest == SubSeq(heap, 1, Len(heap) - 1)
    IN  IF rest # <<>>
        THEN <<rest[1], siftup(nd, [rest EXCEPT ![1] = lastelt], 0)>>
        ELSE <<lastelt, <<>>>>

\* The scan of the frontier always misses.
InHeapNever(heap, pos) == FALSE

\* find_path, line 204: neighbor_pos in [n.pos for n in open_list].
InHeap(heap, pos) == \E i \in 1 .. Len(heap) : heap[i] = pos

\* Node(pos) with g, h, f and parent set (lines 154-157 and 192-202).
MakeNode(g, h, parent) ==
    [g |-> g, h |-> h, f |-> g + h, parent |-> parent, status |-> "evaluating"]

SetNode(nd, pos, node) == [p \in DOMAIN nd \cup {pos} |-> IF p = pos THEN node ELSE nd[p]]

\* find_path, lines 196-197: a known neighbour is relaxed only by a smaller g.
Improves(tentative_g, old_g) == tentative_g < old_g

\* find_path, lines 186-205 for one neighbour: <<nodes, open_list>> afterwards.
RelaxOne(nd, ol, closed, cur, nb, e) ==
    LET tentative_g == nd[cur].g + 1
    IN  IF nb \in closed
        THEN <<nd, ol>>
        ELSE IF nb \in DOMAIN nd /\ ~Improves(tentative_g, nd[nb].g)
        THEN <<nd, ol>>
        ELSE LET nd2 == SetNode(nd, nb, MakeNode(tentative_g, heuristic(nb, e), cur))
             IN  IF InHeap(ol, nb)
                 THEN <<nd2, ol>>
                 ELSE <<nd2, heappush(nd2, ol, nb)>>

\* find_path, lines 185-205: the loop over the neighbours, in order.
RECURSIVE RelaxAll(_, _, _, _, _, _, _)
RelaxAll(nd, ol, closed, cur, nbs, i, e) ==
    IF i > Len(nbs)
    THEN <<nd, ol>>
    ELSE LET r == RelaxOne(nd, ol, closed, cur, nbs[i], e)
         IN  RelaxAll(r[1], r[2], closed, cur, nbs, i + 1, e)

\* find_path, lines 169-172: the positions from the goal back along parent.
RECURSIVE BackPath(_, _)
BackPath(nd, pos) ==
    IF nd[pos].parent = None
    THEN <<pos>>
    ELSE <<pos>> \o BackPath(nd, nd[pos].parent)

\* path[::-1]
Reverse(s) == [i \in 1 .. Len(s) |-> s[Len(s) + 1 - i]]

\* The path is left in goal-to-start order.
ReconstructPathNoReverse(nd, pos) == BackPath(nd, pos)

\* find_path, lines 169-173.
ReconstructPath(nd, pos) == Reverse(BackPath(nd, pos))

\* generate_path_costs, line 131.
PathStatus(pos, e) == IF pos = e THEN "reached" ELSE "on_path"

\* g counted from 1.
generate_path_costs_from_one(p, e) ==
    [i \in 1 .. Len(p) |->
        [g |-> i,
         h |-> heuristic(p[i], e),
         f |-> i + heuristic(p[i], e),
         status |-> PathStatus(p[i], e)]]

\* generate_path_costs: enumerate counts from 0.
generate_path_costs(p, e) ==
    [i \in 1 .. Len(p) |->
        [g |-> i - 1,
         h |-> heuristic(p[i], e),
         f |-> (i - 1) + heuristic(p[i], e),
         status |-> PathStatus(p[i], e)]]

\* record_step
StepRecord(node) == [g |-> node.g, h |-> node.h, f |-> node.f, status |-> node.status]

\* find_path, lines 149-161.
FindPathBegin ==
    /\ pc = "find_path"
    /\ nodes' = SetNode(<<>>, start, MakeNode(0, heuristic(start, end), None))
    /\ open_list' = heappush(nodes', <<>>, start)
    /\ closed_set' = {}
    /\ pc' = "loop"
    /\ UNCHANGED <<start, end, current, cost_history, path, path_costs>>
    /\ UNCHANGED mazeVars

\* find_path, lines 163-165.
Pop ==
    /\ pc = "loop"
    /\ open_list # <<>>
    /\ LET r == heappop(nodes, open_list)
       IN  /\ current' = r[1]
           /\ open_list' = r[2]
    /\ pc' = "popped"
    /\ UNCHANGED <<start, end, closed_set, nodes, cost_history, path, path_costs>>
    /\ UNCHANGED mazeVars

\* find_path, lines 167-177: the goal is popped.
ReachGoal ==
    /\ pc = "popped"
    /\ current = end
    /\ path' = ReconstructPath(nodes, current)
    /\ path_costs' = generate_path_costs(path', end)
    /\ pc' = "done"
    /\ UNCHANGED <<start, end, open_list, closed_set, nodes, current, cost_history>>
    /\ UNCHANGED mazeVars

\* find_path, lines 179-205: close the popped node, record it, relax its neighbours.
Expand ==
    /\ pc = "popped"
    /\ current # end
    /\ closed_set' = closed_set \cup {current}
    /\ cost_history' = Append(cost_history, StepRecord(nodes[current]))
    /\ LET r == RelaxAll(nodes, open_list, closed_set', current,
                         get_neighbors(maze, height, width, current), 1, end)
       IN  /\ nodes' = r[1]
           /\ open_list' = r[2]
    /\ pc' = "loop"
    /\ UNCHANGED <<start, end, current, path, path_costs>>
    /\ UNCHANGED mazeVars

\* find_path, lines 163 and 207: the frontier is empty.
ReturnEmpty ==
    /\ pc = "loop"
    /\ open_list = <<>>
    /\ path' = <<>>
    /\ path_costs' = <<>>
    /\ pc' = "done"
    /\ UNCHANGED <<start, end, open_list, closed_set, nodes, current, cost_history>>
    /\ UNCHANGED mazeVars

\* main.py: generate the maze, then search it from its start to its end.
Next ==
    \/ GenerateBegin
    \/ Carve
    \/ Backtrack
    \/ CarveEnd
    \/ RollStartMiss
    \/ RollStartHit
    \/ RollEndMiss
    \/ RollEndHit
    \/ FindPathBegin
    \/ Pop
    \/ ReachGoal
    \/ Expand

Spec == Init /\ [][Next]_vars

\* Size of the grids handed to AStar directly, and the cells that may be walls.
GridRows == 4
GridCols == 7

WallCandidates == { <<0, 1>>, <<1, 1>>, <<1, 5>>, <<1, 0>> }

\* AStar(maze) on a grid of the caller's, before find_path(start, end).
InitAStar ==
    /\ height = GridRows
    /\ width = GridCols
    /\ \E walls \in SUBSET WallCandidates :
          maze = [c \in Cells(GridRows, GridCols) |-> IF c \in walls THEN 1 ELSE 0]
    /\ start \in Cells(GridRows, GridCols)
    /\ end \in Cells(GridRows, GridCols)
    /\ pc = "find_path"
    /\ stack = <<>>
    /\ start_y = 0
    /\ end_y = 0
    /\ open_list = <<>>
    /\ closed_set = {}
    /\ nodes = <<>>
    /\ current = None
    /\ cost_history = <<>>
    /\ path = <<>>
    /\ path_costs = <<>>

NextAStar ==
    \/ FindPathBegin
    \/ Pop
    \/ ReachGoal
    \/ Expand
    \/ ReturnEmpty

SpecAStar == InitAStar /\ [][NextAStar]_vars

(***************************************************************************)
(* Reference notions the properties are stated with.                       *)
(***************************************************************************)

\* The cells one step from pos that can be stepped on.
StepSet(m, h, w, pos) ==
    { n \in { <<pos[1] + NeighborOffsets[i][1], pos[2] + NeighborOffsets[i][2]>> : i \in 1 .. 4 } :
        /\ 0 <= n[1] /\ n[1] < h /\ 0 <= n[2] /\ n[2] < w
        /\ m[n] = 0 }

\* Breadth-first search: the number of steps of a shortest 4-connected route
\* from the frontier's source to target, -1 when there is none.
RECURSIVE BfsDist(_, _, _, _, _, _, _)
BfsDist(m, h, w, frontier, seen, target, d) ==
    IF target \in frontier THEN d
    ELSE IF frontier = {} THEN -1
    ELSE LET nxt == (UNION { StepSet(m, h, w, p) : p \in frontier }) \ seen
         IN  BfsDist(m, h, w, nxt, seen \cup nxt, target, d + 1)

ShortestDist(s, t) == BfsDist(maze, height, width, {s}, {s}, t, 0)

Adjacent4(a, b) == Abs(a[1] - b[1]) + Abs(a[2] - b[2]) = 1

InBoundsOpen(c) ==
    /\ 0 <= c[1] /\ c[1] < height /\ 0 <= c[2] /\ c[2] < width
    /\ maze[c] = 0

Returned == pc = "done"

Reachable == ShortestDist(start, end) >= 0

Manhattan(a, b) == Abs(a[1] - b[1]) + Abs(a[2] - b[2])

(***************************************************************************)
(* C1: when some 4-connected route of open cells joins start to end, the   *)
(* returned path has exactly as many steps as a shortest one (breadth-     *)
(* first search on the same grid).                                         *)
(***************************************************************************)
C1_ShortestPath ==
    (Returned /\ Reachable) => Len(path) - 1 = ShortestDist(start, end)

(***************************************************************************)
(* C2: when end cannot be reached from start, find_path returns only with  *)
(* the frontier empty, an empty path and an empty cost timeline.  Until    *)
(* then the loop can go on, the popped position is not end and was not     *)
(* closed before, so each turn of the loop closes one more cell of the     *)
(* finite grid and the loop ends.                                          *)
(***************************************************************************)
C2_NoPath ==
    ~Reachable =>
        /\ Returned => (path = <<>> /\ path_costs = <<>> /\ open_list = <<>>)
        /\ pc = "popped" => (current # end /\ current \notin closed_set)
        /\ closed_set \subseteq ({start} \cup Cells(height, width))

C2_Witness ==
    /\ Returned /\ ~Reachable
    /\ maze[start] = 0 /\ maze[end] = 0
    /\ Cardinality(closed_set) >= 2

(***************************************************************************)
(* C3: a returned non-empty path of n cells comes with n cost records;     *)
(* record i (from 0) has g = i, h = the Manhattan distance from path[i] to *)
(* end, f = g + h, and status "reached" exactly when i = n-1, "on_path"    *)
(* otherwise.                                                              *)
(***************************************************************************)
C3_PathCosts ==
    (Returned /\ path # <<>>) =>
        /\ Len(path_costs) = Len(path)
        /\ \A i \in 1 .. Len(path) :
              /\ path_costs[i].g = i - 1
              /\ path_costs[i].h = Manhattan(path[i], end)
              /\ path_costs[i].f = path_costs[i].g + path_costs[i].h
              /\ path_costs[i].status = (IF i = Len(path) THEN "reached" ELSE "on_path")

C3_Witness == Returned /\ Len(path) >= 4 /\ Len(path_costs) = Len(path)

(***************************************************************************)
(* C4: a returned non-empty path starts at start, ends at end, every entry *)
(* is an in-bounds open cell and consecutive entries are 4-adjacent, for   *)
(* any grid and any start and end, a start that is a wall included.        *)
(***************************************************************************)
PathEndsAndSteps ==
    /\ path[1] = start
    /\ path[Len(path)] = end
    /\ \A i \in 1 .. Len(path) - 1 : Adjacent4(path[i], path[i + 1])

C4_PathWellFormed ==
    (Returned /\ path # <<>>) =>
        /\ PathEndsAndSteps
        /\ \A i \in 1 .. Len(path) : InBoundsOpen(path[i])

\* C4 as amended: every entry after the first is an in-bounds open cell; the
\* first entry is start, whatever start is, so the whole path is open exactly
\* when start is.
C4_PathWellFormedAfterStart ==
    (Returned /\ path # <<>>) =>
        /\ PathEndsAndSteps
        /\ \A i \in 2 .. Len(path) : InBoundsOpen(path[i])
        /\ InBoundsOpen(start) => \A i \in 1 .. Len(path) : InBoundsOpen(path[i])

C4_Witness == Returned /\ Len(path) >= 3 /\ maze[start] = 1

(***************************************************************************)
(* C8: the node popped from the frontier has an f no larger than the f of  *)
(* any node still in the frontier, also after a frontier node's g and f    *)
(* were lowered in place.                                                  *)
(***************************************************************************)
C8_PopsMinimumF ==
    pc = "popped" =>
        \A i \in 1 .. Len(open_list) : nodes[current].f <= nodes[open_list[i]].f

(***************************************************************************)
(* C9: the g of every position in closed_set is the length of a shortest   *)
(* 4-connected route from start to it.                                     *)
(***************************************************************************)
C9_ClosedHasShortestG ==
    \A p \in closed_set : nodes[p].g = ShortestDist(start, p)

(***************************************************************************)
(* C10: no position is in the frontier twice, no position of closed_set is *)
(* in the frontier, a popped position was not closed before, and           *)
(* cost_history holds one record for each position of closed_set.          *)
(***************************************************************************)
C10_ExpandedOnce ==
    /\ \A i, j \in 1 .. Len(open_list) : open_list[i] = open_list[j] => i = j
    /\ \A i \in 1 .. Len(open_list) : open_list[i] \notin closed_set
    /\ pc = "popped" =>
          /\ current \notin closed_set
          /\ \A i \in 1 .. Len(open_list) : open_list[i] # current
    /\ Len(cost_history) = Cardinality(closed_set)

\* A frontier position met by two expansions and still in the frontier once.
C10_Witness ==
    /\ pc = "loop"
    /\ Cardinality(closed_set) >= 3
    /\ \E i \in 1 .. Len(open_list) :
          Cardinality({ q \in closed_set : Adjacent4(q, open_list[i]) }) >= 2

(***************************************************************************)
(* The maze                                                                *)
(***************************************************************************)
Interior == (1 .. height - 2) \X (1 .. width - 2)

OpenInterior == { c \in Interior : maze[c] = 0 }

OddLattice == { c \in Interior : c[1] % 2 = 1 /\ c[2] % 2 = 1 }

\* The pairs of open interior cells side by side or one above the other.
InteriorEdges ==
    { e \in OpenInterior \X { <<0, 1>>, <<1, 0>> } :
        <<e[1][1] + e[2][1], e[1][2] + e[2][2]>> \in OpenInterior }

RECURSIVE InteriorClosure(_, _)
InteriorClosure(frontier, seen) ==
    IF frontier = {} THEN seen
    ELSE LET nxt == { c \in OpenInterior \ seen : \E p \in frontier : Adjacent4(p, c) }
         IN  InteriorClosure(nxt, seen \cup nxt)

\* The loop of generate has ended and generate_start_end runs or has returned;
\* the search that follows never writes the grid.
CarvingDone == pc \in {"roll_start", "roll_end", "find_path"}

GenerateReturned == pc \in {"find_path", "loop", "popped", "done"}

(***************************************************************************)
(* C5: once the carving loop has ended, every interior cell with two odd   *)
(* coordinates is open and the open interior cells form a tree under       *)
(* 4-adjacency: connected, with one edge less than cells.                  *)
(***************************************************************************)
C5_PerfectMaze ==
    CarvingDone =>
        /\ OddLattice \subseteq OpenInterior
        /\ InteriorClosure({<<1, 1>>}, {<<1, 1>>}) = OpenInterior
        /\ Cardinality(InteriorEdges) = Cardinality(OpenInterior) - 1

\* A carved maze with a junction: an open cell with three open neighbours.
C5_Witness ==
    /\ pc = "roll_start"
    /\ \E c \in OpenInterior :
          Cardinality({ d \in OpenInterior : Adjacent4(c, d) }) >= 3

C7_GenerateTerminates ==
    /\ <>(pc = "carve" /\ stack = <<>>)
    /\ [](pc \in {"roll_start", "roll_end"} =>
            /\ \E y \in Rows : maze[<<y, 1>>] = 0
            /\ \E y \in Rows : maze[<<y, width - 2>>] = 0)
    /\ <>GenerateReturned

\* A roll that missed, from where the loop has still to end.
C7_Witness ==
    /\ pc = "roll_end"
    /\ end_y \in Rows
    /\ maze[<<end_y, width - 2>>] = 1
====
